---- MODULE Spec2Model ----
(***************************************************************************)
(* A model of main.py (Red Ball): the camera, the avatar's physics and     *)
(* collision resolution, the moving platforms and the per-frame game loop. *)
(*                                                                         *)
(* Numbers.  The program computes with Python floats.  Here every real     *)
(* quantity (a position, a velocity, a radius, a zoom, a scale factor, a   *)
(* matrix entry) is an integer count of 1/U units (U = 1000), and a        *)
(* product is truncated toward zero to that resolution.  pygame.Rect       *)
(* stores whole pixels: its fields are integers in pixels, obtained from a *)
(* real by int(), i.e. truncation toward zero, as pygame does.             *)
(***************************************************************************)
EXTENDS Integers, Sequences, FiniteSets, TLC

VARIABLES
    ball,       \* Game.ball: the Ball object's fields
    camera,     \* Game.camera: the Camera object's fields
    world,      \* Game's level entities: moving_platforms, coins, powerups, flag
    session,    \* Game's current_level, score, level_complete
    step        \* history: the operation that produced this state, with its inputs

vars == <<ball, camera, world, session, step>>

-----------------------------------------------------------------------------
(* Fixed-point arithmetic standing in for Python's float arithmetic.        *)

U == 10 * 100

Abs(a) == IF a < 0 THEN -a ELSE a

Sgn(a) == IF a < 0 THEN -1 ELSE IF a > 0 THEN 1 ELSE 0

Min2(a, b) == IF a <= b THEN a ELSE b

Max2(a, b) == IF a >= b THEN a ELSE b

\* a * b for two reals: (a/U)*(b/U) in 1/U units, truncated toward zero.
\* The split keeps every intermediate product inside TLC's 32-bit integers.
MulAbs(a, b) == (a \div U) * b + (a % U) * (b \div U) + ((a % U) * (b % U)) \div U

Mul(a, b) ==
    IF a >= 0
    THEN IF b >= 0 THEN MulAbs(a, b) ELSE -MulAbs(a, -b)
    ELSE IF b >= 0 THEN -MulAbs(-a, b) ELSE MulAbs(-a, -b)

\* a / b for two reals, truncated toward zero.
Div(a, b) == Sgn(a) * Sgn(b) * ((Abs(a) * U) \div Abs(b))

\* Python's int() of a real: whole pixels, truncated toward zero.
ToInt(a) == Sgn(a) * (Abs(a) \div U)

\* A whole number of pixels as a real.
Px(n) == n * U

-----------------------------------------------------------------------------
(* class MatrixMath                                                         *)

create_translation_matrix(dx, dy) ==
    << <<U, 0, dx>>,
       <<0, U, dy>>,
       <<0, 0, U>> >>

create_scale_matrix(sx, sy) ==
    << <<sx, 0, 0>>,
       <<0, sy, 0>>,
       <<0, 0, U>> >>

\* np.dot(matrix, [x, y, 1]) without the homogeneous coordinate.
apply_transformation(matrix, point) ==
    << Mul(matrix[1][1], point[1]) + Mul(matrix[1][2], point[2]) + Mul(matrix[1][3], U),
       Mul(matrix[2][1], point[1]) + Mul(matrix[2][2], point[2]) + Mul(matrix[2][3], U) >>

\* np.dot(a, b) of two 3x3 matrices.
MatDot(a, b) ==
    [i \in 1..3 |-> [j \in 1..3 |->
        Mul(a[i][1], b[1][j]) + Mul(a[i][2], b[2][j]) + Mul(a[i][3], b[3][j])]]

\* combine_matrices(m1, m2): the product in call order.
combine_matrices(m1, m2) == MatDot(m1, m2)

\* A lerp that steps past its end point.
lerp_overshoot(start, end, t) == start + Mul(U + t, end - start)

lerp(start, end, t) == start + Mul(t, end - start)

lerp_matrix(matrix_a, matrix_b, t) ==
    [i \in 1..3 |-> [j \in 1..3 |-> lerp(matrix_a[i][j], matrix_b[i][j], t)]]

\* A view matrix that translates after scaling.
create_view_matrix_swapped(camera_x, camera_y, zoom) ==
    combine_matrices(create_translation_matrix(-camera_x, -camera_y),
                     create_scale_matrix(zoom, zoom))

create_view_matrix(camera_x, camera_y, zoom) ==
    combine_matrices(create_scale_matrix(zoom, zoom),
                     create_translation_matrix(-camera_x, -camera_y))

-----------------------------------------------------------------------------
(* class Camera                                                             *)

screen_width == 1000

screen_height == 600

position_lerp_speed == 80

zoom_lerp_speed == 50

min_x == 0

max_x == 2000

ZoomMin == 500

ZoomMax == 2000

TargetYMin == -100

TargetYMax == 100

\* Camera.__init__
CameraInit ==
    [position        |-> <<0, 0>>,
     target_position |-> <<0, 0>>,
     zoom            |-> U,
     target_zoom     |-> U,
     shake_intensity |-> 0,
     shake_timer     |-> 0,
     view_matrix     |-> create_view_matrix(0, 0, U),
     previous_matrix |-> create_view_matrix(0, 0, U)]

\* A set_target that leaves the vertical component as computed.
set_target_unclamped(c, target_x, target_y) ==
    [c EXCEPT !.target_position =
        << Max2(Px(min_x), Min2(target_x - Px(screen_width) \div 2, Px(max_x))),
           target_y - Px(screen_height) \div 2 >>]

\* Camera.set_target
set_target(c, target_x, target_y) ==
    LET tx == target_x - Px(screen_width) \div 2
        ty == target_y - Px(screen_height) \div 2
    IN  [c EXCEPT !.target_position =
            << Max2(Px(min_x), Min2(tx, Px(max_x))),
               Max2(Px(TargetYMin), Min2(ty, Px(TargetYMax))) >>]

\* A set_zoom_target that forgets to clamp.
set_zoom_target_unclamped(c, zoom) == [c EXCEPT !.target_zoom = zoom]

\* Camera.set_zoom_target
set_zoom_target(c, zoom) ==
    [c EXCEPT !.target_zoom = Max2(ZoomMin, Min2(zoom, ZoomMax))]

\* An add_screen_shake that adds to the shake in progress.
add_screen_shake_stacking(c, intensity, duration) ==
    [c EXCEPT !.shake_intensity = c.shake_intensity + intensity,
              !.shake_timer = c.shake_timer + duration]

\* Camera.add_screen_shake
add_screen_shake(c, intensity, duration) ==
    [c EXCEPT !.shake_intensity = intensity, !.shake_timer = duration]

\* random.uniform(-i, i): the sample is frac * i with frac in [-1, 1] (in 1/U).
Uniform(intensity, frac) == Mul(frac, intensity)

\* The smoothing step of Camera.update: position and zoom toward their targets.
CameraSmooth(c) ==
    [c EXCEPT
        !.position = << lerp(c.position[1], c.target_position[1], position_lerp_speed),
                        lerp(c.position[2], c.target_position[2], position_lerp_speed) >>,
        !.zoom     = lerp(c.zoom, c.target_zoom, zoom_lerp_speed)]

\* A shake that keeps its intensity when its time is up.
CameraShake_keep(s, rx, ry) ==
    LET shaking  == s.shake_timer > 0
        offset_x == IF shaking THEN Uniform(s.shake_intensity, rx) ELSE 0
        offset_y == IF shaking THEN Uniform(s.shake_intensity, ry) ELSE 0
    IN  [s EXCEPT
            !.previous_matrix = s.view_matrix,
            !.shake_timer     = IF shaking THEN s.shake_timer - 1 ELSE s.shake_timer,
            !.view_matrix     = create_view_matrix(s.position[1] + offset_x,
                                                   s.position[2] + offset_y, s.zoom)]

\* The rest of Camera.update, on the smoothed camera s: the shake and the view
\* matrix; rx, ry are the two random draws, as fractions of the intensity.
CameraShake(s, rx, ry) ==
    LET shaking  == s.shake_timer > 0
        offset_x == IF shaking THEN Uniform(s.shake_intensity, rx) ELSE 0
        offset_y == IF shaking THEN Uniform(s.shake_intensity, ry) ELSE 0
        timer    == IF shaking THEN s.shake_timer - 1 ELSE s.shake_timer
        final_x  == s.position[1] + offset_x
        final_y  == s.position[2] + offset_y
    IN  [s EXCEPT
            !.previous_matrix = s.view_matrix,
            !.shake_timer     = timer,
            !.shake_intensity = IF shaking /\ timer <= 0 THEN 0 ELSE s.shake_intensity,
            !.view_matrix     = create_view_matrix(final_x, final_y, s.zoom)]

\* Camera.update
CameraUpdate(c, rx, ry) == CameraShake(CameraSmooth(c), rx, ry)

\* Camera.world_to_screen
world_to_screen(c, world_pos) == apply_transformation(c.view_matrix, world_pos)

\* Camera.screen_to_world
screen_to_world(c, screen_pos) ==
    LET inv_translation == create_translation_matrix(c.position[1], c.position[2])
        inv_scaling     == create_scale_matrix(Div(U, c.zoom), Div(U, c.zoom))
    IN  apply_transformation(combine_matrices(inv_translation, inv_scaling), screen_pos)

\* Camera.get_interpolated_matrix
get_interpolated_matrix(c, alpha) == lerp_matrix(c.previous_matrix, c.view_matrix, alpha)

-----------------------------------------------------------------------------
(* pygame.Rect: whole pixels; every argument goes through int().            *)

Rect(x, y, w, h) == [x |-> ToInt(x), y |-> ToInt(y), w |-> ToInt(w), h |-> ToInt(h)]

\* Rect.colliderect: the two rectangles share interior area.
colliderect(a, b) ==
    /\ a.x < b.x + b.w
    /\ a.x + a.w > b.x
    /\ a.y < b.y + b.h
    /\ a.y + a.h > b.y

-----------------------------------------------------------------------------
(* class Ball                                                               *)

base_radius == 15

gravity == 500

jump_force == -12

move_speed == 5

friction == 800

start_lives == 2

powerup_duration == 300

ScaleGrow == 2000

ScaleShrink == 500

StartPos == <<Px(100), Px(400)>>

\* Ball.__init__(x, y)
BallInit(x, y) ==
    [original_pos |-> <<x, y>>,
     pos          |-> <<x, y>>,
     velocity     |-> <<0, 0>>,
     radius       |-> Px(base_radius),
     on_ground    |-> FALSE,
     scale_factor |-> U,
     scale_timer  |-> 0,
     lives        |-> start_lives]

\* An apply_powerup whose grow always adds a life.
apply_powerup_uncapped(b, power_type) ==
    IF power_type = "grow"
    THEN [b EXCEPT !.scale_factor = ScaleGrow, !.lives = b.lives + 1,
                   !.scale_timer = powerup_duration]
    ELSE [b EXCEPT !.scale_factor = ScaleShrink, !.lives = b.lives - 1,
                   !.scale_timer = powerup_duration]

\* An apply_powerup that resizes the avatar at once.
apply_powerup_resized(b, power_type) ==
    IF power_type = "grow"
    THEN [b EXCEPT !.scale_factor = ScaleGrow,
                   !.lives        = IF b.lives < start_lives THEN b.lives + 1 ELSE b.lives,
                   !.scale_timer  = powerup_duration,
                   !.radius       = Mul(ScaleGrow, Px(base_radius))]
    ELSE [b EXCEPT !.scale_factor = ScaleShrink,
                   !.lives        = b.lives - 1,
                   !.scale_timer  = powerup_duration,
                   !.radius       = Mul(ScaleShrink, Px(base_radius))]

\* Ball.apply_powerup
apply_powerup(b, power_type) ==
    IF power_type = "grow"
    THEN [b EXCEPT !.scale_factor = ScaleGrow,
                   !.lives        = IF b.lives < start_lives THEN b.lives + 1 ELSE b.lives,
                   !.scale_timer  = powerup_duration]
    ELSE [b EXCEPT !.scale_factor = ScaleShrink,
                   !.lives        = b.lives - 1,
                   !.scale_timer  = powerup_duration]

\* A timer step that never restores the scale factor.
BallScaleStep_noreset(b) ==
    LET timer == IF b.scale_timer > 0 THEN b.scale_timer - 1 ELSE b.scale_timer
        point == apply_transformation(create_scale_matrix(b.scale_factor, b.scale_factor),
                                      <<Px(base_radius), 0>>)
    IN  [b EXCEPT !.scale_timer = timer, !.radius = Abs(point[1])]

\* The first lines of Ball.update: the scale timer and the radius.
BallScaleStep(b) ==
    LET timer  == IF b.scale_timer > 0 THEN b.scale_timer - 1 ELSE b.scale_timer
        factor == IF b.scale_timer > 0 /\ timer = 0 THEN U ELSE b.scale_factor
        point  == apply_transformation(create_scale_matrix(factor, factor),
                                       <<Px(base_radius), 0>>)
    IN  [b EXCEPT !.scale_timer = timer, !.scale_factor = factor, !.radius = Abs(point[1])]

\* A move step with friction on the ground only.
BallMoveStep_groundfriction(b) ==
    LET vy == IF ~b.on_ground THEN b.velocity[2] + gravity ELSE b.velocity[2]
        vx == IF b.on_ground THEN Mul(friction, b.velocity[1]) ELSE b.velocity[1]
    IN  [b EXCEPT
            !.velocity  = <<vx, vy>>,
            !.pos       = apply_transformation(create_translation_matrix(vx, vy), b.pos),
            !.on_ground = FALSE]

\* The rest of Ball.update: gravity, friction, the Euler step, on_ground cleared.
\* (self.rotation, which only the drawing code reads, is not modelled.)
BallMoveStep(b) ==
    LET vy == IF ~b.on_ground THEN b.velocity[2] + gravity ELSE b.velocity[2]
        vx == Mul(friction, b.velocity[1])
    IN  [b EXCEPT
            !.velocity  = <<vx, vy>>,
            !.pos       = apply_transformation(create_translation_matrix(vx, vy), b.pos),
            !.on_ground = FALSE]

\* Ball.update
BallUpdate(b) == BallMoveStep(BallScaleStep(b))

\* Ball.move_left
move_left(b) == [b EXCEPT !.velocity[1] = -Px(move_speed)]

\* Ball.move_right
move_right(b) == [b EXCEPT !.velocity[1] = Px(move_speed)]

\* A jump that does not look at on_ground.
jump_always(b) == [b EXCEPT !.velocity[2] = Px(jump_force)]

\* Ball.jump
jump(b) == IF b.on_ground THEN [b EXCEPT !.velocity[2] = Px(jump_force)] ELSE b

\* The avatar's bounding square as the program builds it for collision tests.
BallRect(b) == Rect(b.pos[1] - b.radius, b.pos[2] - b.radius, b.radius * 2, b.radius * 2)

\* A platform as handle_platform_collision sees it: p.rect is platform.rect,
\* p.moving is isinstance(platform, MovingPlatform), p.velocity its last
\* displacement and p.move_type its kind ("static" for a Platform).
FastLimit == 5

\* A resolution that treats a vertical platform like the other moving ones
\* (and that is all it does: landings only).
ResolveOverlap_uniform(b, p) ==
    LET top         == Px(p.rect.y)
        overlap_top == (b.pos[2] + b.radius) - top
        min_overlap == Min2(Min2((b.pos[1] + b.radius) - Px(p.rect.x),
                                 Px(p.rect.x + p.rect.w) - (b.pos[1] - b.radius)),
                            Min2(overlap_top, Px(p.rect.y + p.rect.h) - (b.pos[2] - b.radius)))
    IN  IF min_overlap = overlap_top /\ b.velocity[2] >= 0
        THEN [b EXCEPT
                !.pos[2]    = top - b.radius,
                !.on_ground = TRUE,
                !.velocity  = << b.velocity[1] + Mul(800, p.velocity[1]),
                                 Mul(800, p.velocity[2]) >>]
        ELSE b

\* The body of the loop of handle_platform_collision for one colliding platform:
\* the resolution along the axis of minimum overlap.
ResolveOverlap(b, p) ==
    LET pv             == IF p.moving THEN p.velocity ELSE <<0, 0>>
        left           == Px(p.rect.x)
        right          == Px(p.rect.x + p.rect.w)
        top            == Px(p.rect.y)
        bottom         == Px(p.rect.y + p.rect.h)
        overlap_left   == (b.pos[1] + b.radius) - left
        overlap_right  == right - (b.pos[1] - b.radius)
        overlap_top    == (b.pos[2] + b.radius) - top
        overlap_bottom == bottom - (b.pos[2] - b.radius)
        min_overlap    == Min2(Min2(overlap_left, overlap_right),
                               Min2(overlap_top, overlap_bottom))
    IN  IF min_overlap = overlap_top /\ b.velocity[2] >= 0
        THEN [b EXCEPT
                !.pos[2]    = top - b.radius,
                !.on_ground = TRUE,
                !.velocity  =
                    IF ~p.moving THEN <<b.velocity[1], 0>>
                    ELSE << b.velocity[1] + Mul(800, pv[1]),
                            IF p.move_type = "vertical" THEN pv[2] ELSE 0 + Mul(800, pv[2]) >>]
        ELSE IF min_overlap = overlap_bottom /\ b.velocity[2] <= 0
        THEN [b EXCEPT !.pos[2] = bottom + b.radius,
                       !.velocity[2] = IF p.moving THEN Mul(500, pv[2]) ELSE 0]
        ELSE IF min_overlap = overlap_left /\ b.velocity[1] >= 0
        THEN [b EXCEPT !.pos[1] = left - b.radius,
                       !.velocity[1] = IF p.moving THEN Mul(300, pv[1]) ELSE 0]
        ELSE IF min_overlap = overlap_right /\ b.velocity[1] <= 0
        THEN [b EXCEPT !.pos[1] = right + b.radius,
                       !.velocity[1] = IF p.moving THEN Mul(300, pv[1]) ELSE 0]
        ELSE b

\* The "additional check for fast-moving platforms" at the end of the loop body.
FastPlatformCheck(b, p) ==
    IF p.moving /\ (Abs(p.velocity[1]) > Px(FastLimit) \/ Abs(p.velocity[2]) > Px(FastLimit))
    THEN LET next_pos  == <<b.pos[1] + b.velocity[1], b.pos[2] + b.velocity[2]>>
             next_rect == Rect(next_pos[1] - b.radius, next_pos[2] - b.radius,
                               b.radius * 2, b.radius * 2)
         IN  IF colliderect(next_rect, p.rect)
             THEN IF p.move_type = "vertical"
                  THEN [b EXCEPT !.velocity[2] = p.velocity[2]]
                  ELSE IF p.move_type = "horizontal"
                  THEN [b EXCEPT !.velocity[1] = Mul(800, p.velocity[1])]
                  ELSE b
             ELSE b
    ELSE b

\* The end of the loop body: r is the avatar after the resolution; ball_rect
\* is moved to it, then the fast-platform check runs.
AfterResolve(r, ball_rect, p) ==
    [ball |-> FastPlatformCheck(r, p),
     rect |-> [ball_rect EXCEPT !.x = ToInt(r.pos[1] - r.radius),
                                !.y = ToInt(r.pos[2] - r.radius)]]

\* One iteration of the loop; s = [ball, rect] holds the avatar and ball_rect,
\* the rectangle carried across iterations (moved only after a colliding platform).
CollideOne(s, p) ==
    IF colliderect(s.rect, p.rect)
    THEN AfterResolve(ResolveOverlap(s.ball, p), s.rect, p)
    ELSE s

\* for platform in platforms
RECURSIVE CollideLoop(_, _, _)
CollideLoop(s, platforms, i) ==
    IF i > Len(platforms) THEN s.ball
    ELSE CollideLoop(CollideOne(s, platforms[i]), platforms, i + 1)

\* Ball.handle_platform_collision
handle_platform_collision(b, platforms) ==
    CollideLoop([ball |-> b, rect |-> BallRect(b)], platforms, 1)

\* What the loop did for platform i when ball_rect collided with it: the
\* avatar and ball_rect before, the avatar and its bounding box after.
Hit(s, p, i) ==
    [i |-> i, platform |-> p, before |-> s.ball, rect |-> s.rect,
     after |-> CollideOne(s, p).ball, after_rect |-> CollideOne(s, p).rect]

\* The colliding platforms of the loop, in order, each with what it did.
RECURSIVE CollideTrace(_, _, _)
CollideTrace(s, platforms, i) ==
    IF i > Len(platforms) THEN <<>>
    ELSE (IF colliderect(s.rect, platforms[i].rect) THEN <<Hit(s, platforms[i], i)>> ELSE <<>>)
         \o CollideTrace(CollideOne(s, platforms[i]), platforms, i + 1)

\* The trace of handle_platform_collision(b, platforms).
CollisionHits(b, platforms) ==
    CollideTrace([ball |-> b, rect |-> BallRect(b)], platforms, 1)

-----------------------------------------------------------------------------
(* math.sin and math.cos on fixed-point radians (1/U rad in, 1/U out):      *)
(* reduction to the first quadrant, then the Taylor polynomial to x^7.      *)

PiU == 3142

TwoPiU == 6283

HalfPiU == 1571

\* x - x^3/6 + x^5/120 - x^7/5040 for x in [0, pi/2], x2 = x*x.
SinPoly(x, x2) ==
    Min2(U, x - Mul(x2, x) \div 6 + Mul(Mul(x2, x2), x) \div 120
              - Mul(Mul(Mul(x2, x2), x2), x) \div 5040)

SinQ(x) == SinPoly(x, Mul(x, x))

\* The first-quadrant angle with the same sine up to sign, for r in [0, 2 pi).
Fold(r) ==
    IF r <= HalfPiU THEN r
    ELSE IF r <= PiU + HalfPiU THEN Abs(PiU - r)
    ELSE TwoPiU - r

\* sin for an angle a >= 0.
Sin(a) == IF a % TwoPiU <= PiU THEN SinQ(Fold(a % TwoPiU)) ELSE -SinQ(Fold(a % TwoPiU))

Cos(a) == Sin(a + HalfPiU)

create_rotation_matrix(angle) ==
    << <<Cos(angle), -Sin(angle), 0>>,
       <<Sin(angle), Cos(angle), 0>>,
       <<0, 0, U>> >>

-----------------------------------------------------------------------------
(* The level tables of class Game (create_platforms, create_moving_platforms,*)
(* create_coins, create_powerups); coordinates in whole pixels.              *)

max_level == 3

\* Game.create_platforms: <<x, y, width, height>>
PlatformTable(level) ==
    IF level = 1 THEN
        << <<0, 550, 200, 50>>, <<250, 450, 150, 20>>, <<450, 350, 100, 20>>,
           <<600, 250, 120, 20>>, <<1150, 200, 150, 20>>, <<1350, 350, 100, 20>>,
           <<1750, 500, 150, 50>> >>
    ELSE IF level = 2 THEN
        << <<0, 550, 200, 50>>, <<300, 450, 150, 20>>, <<500, 350, 60, 20>>,
           <<580, 350, 60, 20>>, <<700, 250, 120, 20>>, <<900, 350, 50, 20>>,
           <<580, 350, 50, 20>>, <<1100, 450, 150, 20>>, <<1300, 350, 40, 20>>,
           <<1360, 350, 40, 20>>, <<1500, 250, 120, 20>>, <<1700, 350, 100, 20>>,
           <<1850, 500, 150, 50>> >>
    ELSE
        << <<0, 550, 200, 50>>, <<250, 450, 150, 20>>, <<450, 350, 100, 20>>,
           <<650, 250, 120, 20>>, <<850, 150, 100, 20>>, <<1050, 250, 120, 20>>,
           <<1250, 350, 100, 20>>, <<1450, 450, 150, 20>>, <<1650, 350, 100, 20>>,
           <<1850, 500, 150, 50>> >>

\* Game.create_moving_platforms: <<x, y, width, height, move_type, speed, distance>>
\* (speed in 1/U).
MovingTable(level) ==
    IF level = 1 THEN
        << <<800, 400, 100, 20, "horizontal", 1500, 80>>,
           <<950, 300, 80, 20, "vertical", 1000, 60>>,
           <<1500, 300, 90, 20, "circular", 800, 100>>,
           <<1600, 450, 100, 20, "horizontal", 2000, 120>> >>
    ELSE IF level = 2 THEN
        << <<400, 400, 100, 20, "vertical", 1000, 80>>,
           <<600, 300, 80, 20, "horizontal", 1000, 60>>,
           <<800, 200, 90, 20, "circular", 800, 100>>,
           <<1200, 400, 100, 20, "vertical", 1000, 120>>,
           <<1400, 300, 80, 20, "horizontal", 1000, 80>> >>
    ELSE
        << <<350, 400, 100, 20, "circular", 1500, 80>>,
           <<550, 300, 80, 20, "vertical", 1000, 60>>,
           <<750, 200, 90, 20, "horizontal", 800, 100>>,
           <<1150, 300, 100, 20, "circular", 2000, 120>>,
           <<1350, 400, 80, 20, "vertical", 1500, 80>>,
           <<1550, 300, 90, 20, "horizontal", 1000, 60>> >>

\* Game.create_coins: <<x, y>>
CoinTable(level) ==
    IF level = 1 THEN
        << <<320, 410>>, <<500, 310>>, <<660, 210>>, <<850, 360>>, <<950, 260>>,
           <<1220, 160>>, <<1400, 310>>, <<1550, 260>>, <<1820, 460>> >>
    ELSE IF level = 2 THEN
        << <<350, 410>>, <<550, 310>>, <<750, 210>>, <<950, 310>>, <<1150, 410>>,
           <<1350, 310>>, <<1550, 210>>, <<1750, 310>>, <<1900, 460>> >>
    ELSE
        << <<300, 410>>, <<500, 310>>, <<700, 210>>, <<900, 110>>, <<1100, 210>>,
           <<1300, 310>>, <<1500, 410>>, <<1700, 310>>, <<1900, 460>> >>

\* Game.create_powerups: <<x, y, power_type>>
PowerupTable(level) ==
    IF level = 1 THEN
        << <<300, 430, "shrink">>, <<650, 230, "grow">>, <<900, 380, "shrink">>,
           <<1200, 180, "grow">>, <<1450, 330, "shrink">> >>
    ELSE IF level = 2 THEN
        << <<450, 330, "shrink">>, <<850, 330, "shrink">>, <<1250, 330, "shrink">>,
           <<1000, 430, "grow">>, <<1600, 430, "grow">> >>
    ELSE
        << <<300, 430, "grow">>, <<600, 330, "shrink">>, <<900, 130, "grow">>,
           <<1200, 230, "shrink">>, <<1500, 430, "grow">>, <<1800, 330, "shrink">> >>

coin_radius == 10

powerup_size == 20

flag_x == 1850

flag_y == 450

pole_height == 100

flag_width == 60

-----------------------------------------------------------------------------
(* class Platform, class MovingPlatform                                     *)

\* Platform.__init__ as the collision pass sees it.
StaticPlatform(t) ==
    [rect      |-> Rect(Px(t[1]), Px(t[2]), Px(t[3]), Px(t[4])),
     moving    |-> FALSE,
     move_type |-> "static",
     velocity  |-> <<0, 0>>]

\* MovingPlatform.__init__: the fields that change (time counts update() calls:
\* self.time is 0.02 times it).
MovingInit(t) ==
    [time     |-> 0,
     x        |-> Px(t[1]),
     y        |-> Px(t[2]),
     velocity |-> <<0, 0>>,
     rect     |-> Rect(Px(t[1]), Px(t[2]), Px(t[3]), Px(t[4]))]

TimeStep == 20

\* The position MovingPlatform.update computes for self.time = 0.02 * ticks.
MovingTarget(t, ticks) ==
    LET angle == Mul(ticks * TimeStep, t[6])
    IN  IF t[5] = "horizontal"
        THEN << Px(t[1]) + Mul(Sin(angle), Px(t[7])), Px(t[2]) >>
        ELSE IF t[5] = "vertical"
        THEN << Px(t[1]), Px(t[2]) + Mul(Sin(angle), Px(t[7])) >>
        ELSE LET center_x == t[1] + t[3] \div 2
                 center_y == t[2] + t[4] \div 2
                 radius   == t[7] \div 2
                 rotated  == apply_transformation(create_rotation_matrix(angle),
                                                  <<Px(radius), 0>>)
             IN  << Px(center_x) + rotated[1] - Px(t[3] \div 2),
                    Px(center_y) + rotated[2] - Px(t[4] \div 2) >>

\* The end of MovingPlatform.update: the move to tpos, the transformed position.
MovingCommit(m, vel, tpos) ==
    [m EXCEPT !.time = m.time + 1,
              !.velocity = vel,
              !.x = tpos[1],
              !.y = tpos[2],
              !.rect = [m.rect EXCEPT !.x = ToInt(tpos[1]), !.y = ToInt(tpos[2])]]

\* The middle of MovingPlatform.update: the velocity and the translation to new.
MovingTo(m, new) ==
    MovingCommit(m, << new[1] - m.x, new[2] - m.y >>,
                 apply_transformation(create_translation_matrix(new[1] - m.x, new[2] - m.y),
                                      <<m.x, m.y>>))

\* MovingPlatform.update
MovingUpdate(t, m) == MovingTo(m, MovingTarget(t, m.time + 1))

\* A MovingPlatform as the collision pass sees it.
MovingPlatform(t, m) ==
    [rect |-> m.rect, moving |-> TRUE, move_type |-> t[5], velocity |-> m.velocity]

-----------------------------------------------------------------------------
(* class Game.  A game state g is the record                                *)
(*   [ball, camera, world, session, log]                                    *)
(* world = [moving_platforms, coins, powerups, flag]: for each entity of    *)
(* the current level the fields that change (a coin, a power-up and the     *)
(* flag: its collected attribute); session = [current_level, score,         *)
(* level_complete]; log is history: what this frame has done so far.        *)
(* (Coin.rotation and Flag.wave_time, which only drawing reads, are not     *)
(* modelled.)                                                               *)

height == 600

fall_margin == 100

NoSnapshot == [taken |-> FALSE]

EmptyLog ==
    [resets  |-> 0,        \* calls of reset_level
     counted |-> <<>>,     \* the coins counted: [objects, i], objects = the resets before
     applied |-> <<>>,     \* the power-ups applied: [objects, i, lives], lives before
     shakes  |-> <<>>,     \* add_screen_shake requests <<intensity, duration>>
     flagged |-> FALSE,    \* the flag was collected
     fell    |-> FALSE,    \* the fall below the playfield was handled
     collect |-> NoSnapshot,   \* check_collisions: what it started from, what it left
     at_fall |-> NoSnapshot,   \* the avatar at the fall test
     physics |-> NoSnapshot,   \* ball.update(): the avatar before and after it
     hits    |-> <<>>,         \* the collision pass: the platforms it resolved
     jump    |-> [held |-> FALSE, before |-> BallInit(0, 0), after |-> BallInit(0, 0)],
                               \* the jump key, the avatar before and after jump()
     drawn   |-> NoSnapshot,   \* the drawing: where on the screen the avatar is put
     order   |-> <<>>]     \* the stages of the frame in the order they ran

WorldInit(level) ==
    [moving_platforms |-> [i \in 1..Len(MovingTable(level)) |-> MovingInit(MovingTable(level)[i])],
     coins            |-> [i \in 1..Len(CoinTable(level)) |-> FALSE],
     powerups         |-> [i \in 1..Len(PowerupTable(level)) |-> FALSE],
     flag             |-> FALSE]

Shake(g, intensity, duration) ==
    [g EXCEPT !.camera = add_screen_shake(g.camera, Px(intensity), duration),
              !.log.shakes = Append(g.log.shakes, <<intensity, duration>>)]

\* A reset_level that keeps the score.
reset_level_keepscore(g) ==
    [g EXCEPT !.ball   = BallInit(StartPos[1], StartPos[2]),
              !.world  = WorldInit(g.session.current_level),
              !.camera = CameraInit,
              !.session.level_complete = FALSE,
              !.log.resets = g.log.resets + 1]

\* Game.reset_level: every entity is created anew for self.current_level.
reset_level(g) ==
    [g EXCEPT !.ball   = BallInit(StartPos[1], StartPos[2]),
              !.world  = WorldInit(g.session.current_level),
              !.camera = CameraInit,
              !.session.score = 0,
              !.session.level_complete = FALSE,
              !.log.resets = g.log.resets + 1]

\* Game.__init__
GameInit ==
    [ball    |-> BallInit(StartPos[1], StartPos[2]),
     camera  |-> CameraInit,
     world   |-> WorldInit(1),
     session |-> [current_level |-> 1, score |-> 0, level_complete |-> FALSE],
     log     |-> EmptyLog]

\* self.all_platforms = self.platforms + self.moving_platforms
all_platforms(g) ==
    LET level == g.session.current_level
    IN  [i \in 1..Len(PlatformTable(level)) |-> StaticPlatform(PlatformTable(level)[i])]
        \o [i \in 1..Len(MovingTable(level)) |->
                MovingPlatform(MovingTable(level)[i], g.world.moving_platforms[i])]

\* Game.run, the KEYDOWN branch of the event loop, for one event;
\* key is "r" (K_r) or "other".
KeyDown(g, key) ==
    IF key = "r" /\ g.session.level_complete /\ g.session.current_level = max_level
    THEN reset_level([g EXCEPT !.session.current_level = 1])
    ELSE IF g.ball.lives <= 0
    THEN Shake(reset_level([g EXCEPT !.session.score = 0]), 10, 60)
    ELSE g

\* for event in pygame.event.get(): the KEYDOWN events of the frame in order.
RECURSIVE EventLoop(_, _, _)
EventLoop(g, events, i) ==
    IF i > Len(events) THEN g ELSE EventLoop(KeyDown(g, events[i]), events, i + 1)

\* The pygame.key.get_pressed() block; keys = [left, right, jump].
ApplyKeys(g, keys) ==
    LET b1 == IF keys.left THEN move_left(g.ball) ELSE g.ball
        b2 == IF keys.right THEN move_right(b1) ELSE b1
        b3 == IF keys.jump THEN jump(b2) ELSE b2
    IN  [g EXCEPT !.ball = b3,
                  !.log.jump = [held |-> keys.jump, before |-> b2, after |-> b3]]

\* coin_rect of Game.check_collisions for coin = <<x, y>>.
CoinRect(coin) ==
    Rect(Px(coin[1] - coin_radius), Px(coin[2] - coin_radius),
         Px(coin_radius * 2), Px(coin_radius * 2))

\* A coin loop body that does not look at coin.collected.
CoinStep_recount(g, ball_rect, i, coin) ==
    IF colliderect(ball_rect, CoinRect(coin))
    THEN Shake([g EXCEPT !.world.coins[i] = TRUE,
                         !.session.score = g.session.score + 10,
                         !.log.counted = Append(g.log.counted,
                                                [objects |-> g.log.resets, i |-> i])],
               1, 5)
    ELSE g

\* The body of the coin loop of Game.check_collisions for coin i = <<x, y>>.
CoinStep(g, ball_rect, i, coin) ==
    IF ~g.world.coins[i] /\ colliderect(ball_rect, CoinRect(coin))
    THEN Shake([g EXCEPT !.world.coins[i] = TRUE,
                         !.session.score = g.session.score + 10,
                         !.log.counted = Append(g.log.counted,
                                                [objects |-> g.log.resets, i |-> i])],
               1, 5)
    ELSE g

\* for coin in self.coins; ball_rect is built once, before the loop.
RECURSIVE CoinLoop(_, _, _, _)
CoinLoop(g, ball_rect, table, i) ==
    IF i > Len(table) THEN g
    ELSE CoinLoop(CoinStep(g, ball_rect, i, table[i]), ball_rect, table, i + 1)

\* The body of the power-up loop for power-up i = <<x, y, power_type>>.
PowerupStep(g, ball_rect, i, powerup) ==
    LET powerup_rect == Rect(Px(powerup[1]), Px(powerup[2]), Px(powerup_size), Px(powerup_size))
    IN  IF ~g.world.powerups[i] /\ colliderect(ball_rect, powerup_rect)
        THEN Shake([g EXCEPT !.world.powerups[i] = TRUE,
                             !.ball = apply_powerup(g.ball, powerup[3]),
                             !.log.applied = Append(g.log.applied,
                                                    [objects |-> g.log.resets, i |-> i,
                                                     lives |-> g.ball.lives])],
                   2, 8)
        ELSE g

\* for powerup in self.powerups
RECURSIVE PowerupLoop(_, _, _, _)
PowerupLoop(g, ball_rect, table, i) ==
    IF i > Len(table) THEN g
    ELSE PowerupLoop(PowerupStep(g, ball_rect, i, table[i]), ball_rect, table, i + 1)

FlagRect == Rect(Px(flag_x - 10), Px(flag_y - pole_height), Px(flag_width + 20),
                 Px(pole_height + 20))

\* A flag that leaves the game on the level it was on.
NextLevel_stay(won) == won

\* "Move to next level if available", after the flag has been collected.
NextLevel(won) ==
    IF won.session.current_level < max_level
    THEN Shake([reset_level([won EXCEPT !.session.current_level =
                                            won.session.current_level + 1])
                    EXCEPT !.session.level_complete = FALSE],
               8, 45)
    ELSE won

\* The flag block of Game.check_collisions.
FlagCheck(g, ball_rect) ==
    IF ~g.world.flag /\ colliderect(ball_rect, FlagRect)
    THEN NextLevel(Shake([g EXCEPT !.world.flag = TRUE,
                                   !.session.level_complete = TRUE,
                                   !.session.score = g.session.score + 100,
                                   !.log.flagged = TRUE],
                         5, 30))
    ELSE g

\* The three blocks of Game.check_collisions for the ball_rect built first.
CheckWith(g, ball_rect, level) ==
    FlagCheck(PowerupLoop(CoinLoop(g, ball_rect, CoinTable(level), 1),
                          ball_rect, PowerupTable(level), 1),
              ball_rect)

\* Game.check_collisions
check_collisions(g) == CheckWith(g, BallRect(g.ball), g.session.current_level)

\* The zoom target Game.update_camera asks for.
ZoomFor(scale_factor) ==
    IF scale_factor > U THEN 800 ELSE IF scale_factor < U THEN 1300 ELSE 1000

\* The hard-landing shake of Game.update_camera.
LandingShake(g) ==
    IF g.ball.on_ground /\ Abs(g.ball.velocity[2]) > Px(8) THEN Shake(g, 3, 10) ELSE g

\* self.camera.update() at the end of Game.update_camera.
CameraStep(g, rx, ry) == [g EXCEPT !.camera = CameraUpdate(g.camera, rx, ry)]

\* Game.update_camera; rx, ry are the random draws of Camera.update.
update_camera(g, rx, ry) ==
    CameraStep(LandingShake([g EXCEPT !.camera =
                   set_zoom_target(set_target(g.camera, g.ball.pos[1], g.ball.pos[2]),
                                   ZoomFor(g.ball.scale_factor))]),
               rx, ry)

\* A fall that never resets the level.
OutOfLives_noreset(f) == f

\* A fall that always resets the level.
OutOfLives_always(f) == Shake(reset_level([f EXCEPT !.session.score = 0]), 10, 60)

\* "if self.ball.lives <= 0" after a fall.
OutOfLives(f) ==
    IF f.ball.lives <= 0 THEN Shake(reset_level([f EXCEPT !.session.score = 0]), 10, 60) ELSE f

\* The fall below the playfield, at the end of the simulation block of Game.run.
FallCheck(g) ==
    IF g.ball.pos[2] > Px(height + fall_margin)
    THEN OutOfLives([g EXCEPT !.ball.pos = g.ball.original_pos,
                              !.ball.velocity = <<0, 0>>,
                              !.ball.lives = g.ball.lives - 1,
                              !.log.fell = TRUE])
    ELSE g

Stage(g, name) == [g EXCEPT !.log.order = Append(g.log.order, name)]

\* for platform in self.moving_platforms: platform.update()
UpdatePlatforms(g) ==
    LET table == MovingTable(g.session.current_level)
    IN  [g EXCEPT !.world.moving_platforms =
            [i \in 1..Len(table) |-> MovingUpdate(table[i], g.world.moving_platforms[i])]]

\* self.ball.update()
PhysicsStage(g) ==
    Stage([g EXCEPT !.ball = BallUpdate(g.ball),
                    !.log.physics = [taken |-> TRUE, before |-> g.ball,
                                     after |-> BallUpdate(g.ball)]],
          "physics")

\* self.ball.handle_platform_collision(self.all_platforms)
CollisionStage(g) ==
    Stage([g EXCEPT !.ball = handle_platform_collision(g.ball, all_platforms(g)),
                    !.log.hits = CollisionHits(g.ball, all_platforms(g))],
          "collision")

PlatformStage(g) == Stage(UpdatePlatforms(g), "platforms")

\* What check_collisions starts from: its ball_rect, the level, the flag.
CollectFrom(g) ==
    [rect  |-> BallRect(g.ball),
     ball  |-> g.ball,
     level |-> g.session.current_level,
     score |-> g.session.score,
     flag  |-> g.world.flag,
     lives |-> g.ball.lives]

\* The game as check_collisions (run on g0) left it.
Collected(g0, g) ==
    [g EXCEPT !.log.collect =
        [taken |-> TRUE, from |-> CollectFrom(g0),
         ball |-> g.ball, camera |-> g.camera, world |-> g.world, session |-> g.session]]

\* self.check_collisions()
CollectStage(g) == Stage(Collected(g, check_collisions(g)), "collectibles")

\* self.update_camera()
CameraStage(g, rx, ry) == Stage(update_camera(g, rx, ry), "camera")

\* The game as the fall test finds it.
AtFall(g) ==
    [g EXCEPT !.log.at_fall = [taken |-> TRUE, y |-> g.ball.pos[2], lives |-> g.ball.lives,
                               ball |-> g.ball, camera |-> g.camera, world |-> g.world,
                               session |-> g.session]]

FallStage(g) == Stage(FallCheck(AtFall(g)), "fall")

\* A simulation block that moves the platforms before the collision pass.
Simulate_platforms_first(g, rx, ry) ==
    CameraStage(CollectStage(CollisionStage(PlatformStage(PhysicsStage(g)))), rx, ry)

\* The "if not self.level_complete" block of Game.run, up to the fall check.
Simulate(g, rx, ry) ==
    CameraStage(CollectStage(PlatformStage(CollisionStage(PhysicsStage(g)))), rx, ry)

\* One iteration of the loop of Game.run up to the simulation block.
FrameInput(g, events, keys) == Stage(ApplyKeys(EventLoop(g, events, 1), keys), "input")

\* A simulation block that runs whether or not the level is complete.
SimulationBlock_always(g, rx, ry) == FallStage(Simulate(g, rx, ry))

\* The simulation block: skipped when the level is complete.
SimulationBlock(g, rx, ry) ==
    IF ~g.session.level_complete THEN FallStage(Simulate(g, rx, ry)) ELSE g

\* The simulation block stopped at the fall test.
SimulationToFall(g, rx, ry) ==
    IF ~g.session.level_complete THEN Simulate(g, rx, ry) ELSE g

\* The state at the fall test of one iteration.
BeforeFall(g, events, keys, rx, ry) == SimulationToFall(FrameInput(g, events, keys), rx, ry)

\* The drawing at the end of the iteration, as far as the avatar goes: its
\* centre is put through the camera's view matrix.
RenderStage(g) ==
    Stage([g EXCEPT !.log.drawn = [taken |-> TRUE,
                                   ball |-> world_to_screen(g.camera, g.ball.pos)]],
          "render")

\* One iteration of the while loop of Game.run.
RunFrame(g, events, keys, rx, ry) ==
    RenderStage(SimulationBlock(FrameInput(g, events, keys), rx, ry))

-----------------------------------------------------------------------------
(* The game loop as a state machine: the program from its start, played     *)
(* with the keyboard.  step holds, besides history, the keyboard as pygame  *)
(* sees it: the keys held in the frame before (a KEYDOWN event is delivered *)
(* in the frame in which a key goes down).                                  *)

\* The current game state as a record.
State == [ball |-> ball, camera |-> camera, world |-> world, session |-> session,
          log |-> EmptyLog]

\* pygame.key.get_pressed(): left = K_LEFT or K_a, right = K_RIGHT or K_d,
\* jump = K_SPACE or K_UP.
Held(l, r, j) == [left |-> l, right |-> r, jump |-> j]

NoKeys == Held(FALSE, FALSE, FALSE)

KeyR == Held(FALSE, TRUE, FALSE)

KeyL == Held(TRUE, FALSE, FALSE)

KeyRJ == Held(FALSE, TRUE, TRUE)

KeyLJ == Held(TRUE, FALSE, TRUE)

\* The number of frames of a play.
MaxFrames == 300

\* The plays explored: what the player holds, as <<keys, number of frames>>
\* in order (nothing is held after the last entry).
\*   1: off the first platform into the gap, then over the first and the third
\*      power-up of level 1 (both shrink), past the second (grow);
\*   2: the same route without the fall;
\*   3: right held: into the gap again and again;
\*   4: right and jump held: over the second power-up (grow) with all lives;
\*   5: the fall first, then right and jump held: grow with one life lost;
\*   6: right and jump held over the second power-up (grow), then nothing:
\*      the grown avatar falls.
Plays ==
    << << <<KeyR, 53>>, <<KeyLJ, 10>>, <<KeyL, 5>>, <<KeyR, 40>>, <<KeyLJ, 5>>,
          <<KeyRJ, 132>>, <<KeyR, 55>> >>,
       << <<KeyLJ, 10>>, <<KeyL, 5>>, <<KeyR, 40>>, <<KeyLJ, 5>>, <<KeyRJ, 115>>,
          <<KeyR, 125>> >>,
       << <<KeyR, 300>> >>,
       << <<KeyRJ, 300>> >>,
       << <<KeyR, 53>>, <<KeyRJ, 247>> >>,
       << <<KeyRJ, 156>> >> >>

\* The keys held in frame f (counted from entry i on) of a play.
RECURSIVE KeysAt(_, _, _)
KeysAt(play, f, i) ==
    IF i > Len(play) THEN NoKeys
    ELSE IF f <= play[i][2] THEN play[i][1]
    ELSE KeysAt(play, f - play[i][2], i + 1)

\* A key went down between two frames.
Pressed(prev, cur) ==
    \/ cur.left /\ ~prev.left
    \/ cur.right /\ ~prev.right
    \/ cur.jump /\ ~prev.jump

\* The KEYDOWN events of a frame: the one of a key of the play going down, then
\* `extra`, the presses of keys that move nothing (K_r among them).
EventsOf(prev, cur, extra) == (IF Pressed(prev, cur) THEN <<"other">> ELSE <<>>) \o extra

ExtraEvents == { <<>>, <<"other">>, <<"r">> }

\* The random draws of the camera shake, as fractions of the intensity.
Draws == { <<-U, U>> }

\* History of the lives counter: what last changed it. "shrink_from_full" is a
\* shrink power-up applied to an avatar with all its lives.
LifeEvent(log, level, before) ==
    IF log.resets > 0 \/ log.fell THEN "other"
    ELSE IF log.applied = <<>> THEN before
    ELSE IF /\ Len(log.applied) = 1
            /\ PowerupTable(level)[log.applied[1].i][3] = "shrink"
            /\ log.applied[1].lives = start_lives
    THEN "shrink_from_full"
    ELSE "other"

\* Game.__init__, and the play chosen.
Init ==
    /\ ball = GameInit.ball
    /\ camera = GameInit.camera
    /\ world = GameInit.world
    /\ session = GameInit.session
    /\ \E p \in 1..Len(Plays) :
          step = [op |-> "init", frames |-> 0, play |-> p, keys |-> NoKeys,
                  log |-> EmptyLog, before |-> "none", last |-> "none"]

\* One iteration of the loop of Game.run.
Frame(extra, rx, ry) ==
    /\ step.frames < MaxFrames
    /\ \E keys \in { KeysAt(Plays[step.play], step.frames + 1, 1) } :
       \E g \in { RunFrame(State, EventsOf(step.keys, keys, extra), keys, rx, ry) } :
           /\ ball' = g.ball
           /\ camera' = g.camera
           /\ world' = g.world
           /\ session' = g.session
           /\ step' = [step EXCEPT
                          !.op = "frame",
                          !.frames = step.frames + 1,
                          !.keys = keys,
                          !.log = g.log,
                          !.before = step.last,
                          !.last = LifeEvent(g.log, session.current_level, step.last)]

Next == \E extra \in ExtraEvents, d \in Draws : Frame(extra, d[1], d[2])

Spec == Init /\ [][Next]_vars

-----------------------------------------------------------------------------
(* Properties of the game loop (specification Spec).                        *)

\* The power-up type of entry e of log.applied, applied on level `level`.
PowerOf(e, level) == PowerupTable(level)[e.i][3]

\* The frame applied exactly one power-up, of type power_type, and neither a
\* reset nor a fall came after it.
AppliedOnly(power_type) ==
    /\ step.op = "frame"
    /\ Len(step.log.applied) = 1
    /\ step.log.applied[1].objects = step.log.resets
    /\ ~step.log.fell
    /\ PowerOf(step.log.applied[1], session.current_level) = power_type

\* The level as reset_level leaves it: the avatar at the start with all its
\* lives, every entity of the current level created anew, the score at 0.
FreshLevel ==
    /\ ball.pos = StartPos
    /\ ball.velocity = <<0, 0>>
    /\ ball.lives = start_lives
    /\ world = WorldInit(session.current_level)
    /\ session.score = 0
    /\ ~session.level_complete

\* C1: in every reachable state the lives counter is >= 0: no frame ends with
\* a negative lives value.
C1_LivesNeverNegative == ball.lives >= 0

\* C2: the second of two shrink power-ups collected in a row from full lives
\* resets the level in the frame of its collection, key press or not: that
\* frame ends with the score at 0, the avatar at the start with 2 lives and the
\* level's entities created anew.
C2_SecondShrinkResets ==
    (/\ step.op = "frame"
     /\ step.before = "shrink_from_full"
     /\ Len(step.log.applied) = 1
     /\ PowerOf(step.log.applied[1], step.log.collect.from.level) = "shrink"
     /\ step.log.applied[1].lives = start_lives - 1)
    => FreshLevel

\* C3: a frame of an uncompleted level whose fall test finds the avatar below
\* height + 100 puts it back at the start with velocity (0, 0) and one life
\* less; when that leaves no life the frame ends with the score at 0, the level
\* reset (2 lives, entities anew) and the shake at intensity 10 for 60 frames.
C3_FallRespawns ==
    (/\ step.op = "frame"
     /\ step.log.at_fall.taken
     /\ step.log.at_fall.y > Px(height + fall_margin))
    => /\ ball.pos = StartPos
       /\ ball.velocity = <<0, 0>>
       /\ IF step.log.at_fall.lives - 1 <= 0
          THEN /\ FreshLevel
               /\ ball = BallInit(StartPos[1], StartPos[2])
               /\ camera = add_screen_shake(CameraInit, Px(10), 60)
          ELSE ball.lives = step.log.at_fall.lives - 1

\* C3 witness: a fall with one life left has reset the level.
C3_Witness ==
    /\ step.op = "frame"
    /\ step.log.at_fall.taken
    /\ step.log.at_fall.y > Px(height + fall_margin)
    /\ step.log.at_fall.lives = 1
    /\ ball.lives = start_lives
    /\ camera.shake_timer = 60

\* C4: when check_collisions finds the avatar's box over the uncollected flag
\* on a level below max_level, it ends with current_level one higher, the
\* avatar, the moving platforms, the coins, the power-ups, the flag and the
\* camera created anew for that level, nothing collected, and level_complete
\* false.
C4_FlagAdvancesLevel ==
    (/\ step.op = "frame"
     /\ step.log.collect.taken
     /\ ~step.log.collect.from.flag
     /\ colliderect(step.log.collect.from.rect, FlagRect)
     /\ step.log.collect.from.level < max_level)
    => /\ step.log.collect.session.current_level = step.log.collect.from.level + 1
       /\ ~step.log.collect.session.level_complete
       /\ step.log.collect.ball = BallInit(StartPos[1], StartPos[2])
       /\ step.log.collect.world = WorldInit(step.log.collect.from.level + 1)
       /\ step.log.collect.camera = add_screen_shake(CameraInit, Px(8), 45)

\* C4 witness: the flag of level 2 was reached and the game is on level 3.
C4_Witness ==
    /\ step.op = "frame"
    /\ step.log.collect.taken
    /\ colliderect(step.log.collect.from.rect, FlagRect)
    /\ step.log.collect.from.level = 2
    /\ session.current_level = 3
    /\ ~world.flag

\* C5: grow sets the scale factor to 2.0 and adds a life only below 2 lives,
\* shrink sets it to 0.5 and takes a life, both set the scale timer to 300;
\* and lives never exceeds 2.
C5_PowerupEffect ==
    /\ ball.lives <= start_lives
    /\ AppliedOnly("grow") =>
          /\ ball.scale_factor = 2 * U
          /\ ball.scale_timer = 300
          /\ ball.lives = IF step.log.applied[1].lives < 2
                          THEN step.log.applied[1].lives + 1
                          ELSE step.log.applied[1].lives
    /\ AppliedOnly("shrink") =>
          /\ ball.scale_factor = U \div 2
          /\ ball.scale_timer = 300
          /\ ball.lives = step.log.applied[1].lives - 1

\* C5 witness: grow was applied to an avatar with 2 lives, which it kept.
C5_Witness ==
    /\ AppliedOnly("grow")
    /\ step.log.applied[1].lives = start_lives
    /\ ball.lives = start_lives

\* The entries of a log sequence are pairwise different.
NoRepeat(seq) == \A j, k \in 1..Len(seq) : j # k => seq[j] # seq[k]

\* C10: a coin, a power-up or the flag that is collected stays collected as
\* long as no reset replaced the objects, and no step counts a coin or applies
\* a power-up that was already collected (nor the same one twice).
C10_CollectedOnce ==
    [][ /\ step'.log.resets = 0 =>
            /\ \A i \in DOMAIN world.coins : world.coins[i] => world'.coins[i]
            /\ \A i \in DOMAIN world.powerups : world.powerups[i] => world'.powerups[i]
            /\ world.flag => world'.flag
        /\ \A k \in 1..Len(step'.log.counted) :
              step'.log.counted[k].objects = 0 => ~world.coins[step'.log.counted[k].i]
        /\ \A k \in 1..Len(step'.log.applied) :
              step'.log.applied[k].objects = 0 => ~world.powerups[step'.log.applied[k].i]
        /\ NoRepeat([k \in 1..Len(step'.log.counted) |->
                        <<step'.log.counted[k].objects, step'.log.counted[k].i>>])
        /\ NoRepeat([k \in 1..Len(step'.log.applied) |->
                        <<step'.log.applied[k].objects, step'.log.applied[k].i>>])
      ]_vars

\* C10 witness: a frame ran with the avatar over the first coin, collected
\* before, and counted nothing.
C10_Witness ==
    /\ step.op = "frame"
    /\ step.log.collect.taken
    /\ colliderect(step.log.collect.from.rect, CoinRect(CoinTable(session.current_level)[1]))
    /\ world.coins[1]
    /\ step.log.counted = <<>>
    /\ step.log.resets = 0

-----------------------------------------------------------------------------
(* Frames near the flag (specification SpecScene): the game on any level,   *)
(* some of the level played, the avatar at rest on the last platform beside *)
(* the flag.                                                                *)

\* The number of frames run from a scene.
MaxSceneFrames == 3

\* The number of MovingPlatform.update calls behind a played world.
PlayedTicks == 40

RECURSIVE Aged(_, _)
Aged(g, n) == IF n = 0 THEN g ELSE Aged(UpdatePlatforms(g), n - 1)

\* A world of `level` in which the first coin and the first power-up are
\* collected and the platforms have moved.
PlayedWorld(level) ==
    [Aged([GameInit EXCEPT !.session.current_level = level,
                           !.world = WorldInit(level)], PlayedTicks).world
        EXCEPT !.coins[1] = TRUE, !.powerups[1] = TRUE]

\* The avatar at rest on the last platform (top at y = 500), left of the pole.
AtFlag(lives) ==
    [BallInit(StartPos[1], StartPos[2]) EXCEPT
        !.pos = <<Px(1870), Px(500 - base_radius)>>, !.on_ground = TRUE, !.lives = lives]

SceneKeys == { NoKeys, Held(FALSE, FALSE, TRUE), KeyRJ }

\* The worlds of a scene on `level`: untouched, played, and played with the
\* second coin collected too.
SceneWorlds(level) ==
    { WorldInit(level), PlayedWorld(level), [PlayedWorld(level) EXCEPT !.coins[2] = TRUE] }

\* The score check_collisions has counted for the coins collected in w.
CoinScore(w) == 10 * Cardinality({ i \in DOMAIN w.coins : w.coins[i] })

InitScene ==
    /\ \E level \in 1..max_level :
          /\ world \in SceneWorlds(level)
          /\ session = [current_level |-> level, score |-> CoinScore(world),
                        level_complete |-> FALSE]
    /\ \E lives \in 1..start_lives : ball = AtFlag(lives)
    /\ camera = CameraInit
    /\ step = [op |-> "init", frames |-> 0, log |-> EmptyLog, events |-> <<>>, keys |-> NoKeys]

\* One iteration of the loop of Game.run; step keeps the KEYDOWN events and the
\* held keys of the iteration.
SceneFrame(events, keys, rx, ry) ==
    /\ step.frames < MaxSceneFrames
    /\ \E g \in { RunFrame(State, events, keys, rx, ry) } :
           /\ ball' = g.ball
           /\ camera' = g.camera
           /\ world' = g.world
           /\ session' = g.session
           /\ step' = [op |-> "frame", frames |-> step.frames + 1, log |-> g.log,
                       events |-> events, keys |-> keys]

NextScene ==
    \E events \in ExtraEvents, keys \in SceneKeys, d \in Draws :
        SceneFrame(events, keys, d[1], d[2])

SpecScene == InitScene /\ [][NextScene]_vars

-----------------------------------------------------------------------------
(* The avatar alone (specification SpecBall): power-ups applied to it and   *)
(* the physics step with the collision pass, on level 1 from the start.     *)

\* The number of updates after a power-up (or after the start).
MaxUpdates == 305

\* The number of power-ups applied.
MaxApplies == 2

\* A power-up is applied after this many updates since the last one.
ApplyTimes == { 0, 150, 300, 302 }

InitBall ==
    /\ ball = GameInit.ball
    /\ camera = GameInit.camera
    /\ world = GameInit.world
    /\ session = GameInit.session
    /\ step = [op |-> "init", n |-> 0, applies |-> 0, last |-> "none",
               radius |-> GameInit.ball.radius]

\* self.ball.apply_powerup(power_type); step.radius is the radius before it.
Power(power_type) ==
    /\ step.applies < MaxApplies
    /\ step.n \in ApplyTimes
    /\ ball' = apply_powerup(ball, power_type)
    /\ step' = [op |-> "apply", n |-> 0, applies |-> step.applies + 1, last |-> power_type,
                radius |-> ball.radius]
    /\ UNCHANGED <<camera, world, session>>

\* self.ball.update(); self.ball.handle_platform_collision(self.all_platforms)
Update ==
    /\ step.n < MaxUpdates
    /\ ball' = handle_platform_collision(BallUpdate(ball), all_platforms(State))
    /\ step' = [step EXCEPT !.op = "update", !.n = step.n + 1]
    /\ UNCHANGED <<camera, world, session>>

NextBall ==
    \/ \E power_type \in {"grow", "shrink"} : Power(power_type)
    \/ Update

SpecBall == InitBall /\ [][NextBall]_vars

\* C6: after grow and n updates with no other power-up, the scale factor is
\* 2.0 while n < 300, and from the 300th update on it is exactly 1.0 and the
\* radius exactly the base radius, update after update.
C6_GrowExpires ==
    step.last = "grow" =>
        /\ step.n < 300 => ball.scale_factor = 2 * U
        /\ (1 <= step.n /\ step.n < 300) => ball.radius = 2 * Px(base_radius)
        /\ step.n >= 300 => (ball.scale_factor = U /\ ball.radius = Px(base_radius))

\* C6 witness: two updates after the 300th the avatar is back to its size.
C6_Witness ==
    /\ step.last = "grow"
    /\ step.n = 302
    /\ ball.scale_factor = U
    /\ ball.radius = Px(base_radius)
    /\ ball.scale_timer = 0

\* C20: the scale factor is one of 0.5, 1.0, 2.0, the scale timer is in
\* 0..300 and is positive exactly when the factor is not 1.0; after an update
\* the radius is base radius x scale factor; after a power-up and before the
\* next update the radius is still the one from before the power-up.
C20_ScaleState ==
    /\ ball.scale_factor \in { ScaleShrink, U, ScaleGrow }
    /\ ball.scale_timer \in 0..powerup_duration
    /\ (ball.scale_timer > 0) <=> (ball.scale_factor # U)
    /\ step.op = "update" => ball.radius = Mul(ball.scale_factor, Px(base_radius))
    /\ step.op = "apply" => ball.radius = step.radius

\* C20 witness: a shrink is applied to the grown avatar; the factor is 0.5 and
\* the radius is still twice the base radius.
C20_Witness ==
    /\ step.op = "apply"
    /\ step.last = "shrink"
    /\ ball.scale_factor = ScaleShrink
    /\ ball.scale_timer = powerup_duration
    /\ step.radius = 2 * Px(base_radius)
    /\ ball.radius = 2 * Px(base_radius)

-----------------------------------------------------------------------------
(* A straight fall onto a static platform (specification SpecLanding): the  *)
(* second platform of level 1, the avatar above it with no horizontal       *)
(* velocity, at one of its three sizes.                                     *)

\* The fastest fall, in half pixels per frame.
MaxSpeed == 40

\* The largest distance of the avatar's lower edge from the platform's top, in
\* pixels.
MaxGap == 25

\* The number of frames of a fall.
MaxFall == 4

LandingPlatform == StaticPlatform(PlatformTable(1)[2])

\* The avatar's centre is within the platform's span: near its left end or in
\* its middle.
LandingXs ==
    { Px(LandingPlatform.rect.x + 5),
      Px(LandingPlatform.rect.x + LandingPlatform.rect.w \div 2) }

Falling(x, scale, gap, speed) ==
    [BallInit(StartPos[1], StartPos[2]) EXCEPT
        !.pos = <<x, Px(LandingPlatform.rect.y - gap) - Mul(scale, Px(base_radius))>>,
        !.velocity = <<0, speed * (U \div 2)>>,
        !.radius = Mul(scale, Px(base_radius)),
        !.scale_factor = scale,
        !.scale_timer = IF scale = U THEN 0 ELSE powerup_duration \div 2]

InitLanding ==
    /\ \E x \in LandingXs, scale \in {U \div 2, U, 2 * U}, gap \in 0..MaxGap, speed \in 0..MaxSpeed :
          ball = Falling(x, scale, gap, speed)
    /\ camera = GameInit.camera
    /\ world = GameInit.world
    /\ session = GameInit.session
    /\ step = [op |-> "init", frames |-> 0, overlap |-> FALSE]

\* self.ball.update(); self.ball.handle_platform_collision(self.all_platforms),
\* as long as the avatar's box has not come to overlap the platform.
Fall ==
    /\ step.frames < MaxFall
    /\ ~step.overlap
    /\ \E moved \in { BallUpdate(ball) } :
          /\ ball' = handle_platform_collision(moved, all_platforms(State))
          /\ step' = [op |-> "fall", frames |-> step.frames + 1,
                      overlap |-> colliderect(BallRect(moved), LandingPlatform.rect)]
    /\ UNCHANGED <<camera, world, session>>

NextLanding == Fall

SpecLanding == InitLanding /\ [][NextLanding]_vars

\* C7: the frame in which the falling avatar's box comes to overlap the
\* platform ends, after the physics step and the collision pass, with
\* on_ground true, vertical velocity 0 and the avatar's lower edge on the
\* platform's top.
C7_LandsOnTop ==
    (step.op = "fall" /\ step.overlap) =>
        /\ ball.on_ground
        /\ ball.velocity[2] = 0
        /\ ball.pos[2] + ball.radius = Px(LandingPlatform.rect.y)

-----------------------------------------------------------------------------
(* The camera alone (specification SpecCamera): targets set, shakes added   *)
(* and update() called in any order.                                        *)

\* The number of update() calls after a call that sets something.
MaxRun == 90

\* The number of calls that set something.
MaxSets == 2

\* A call that sets something comes after this many updates since the last.
SetTimes == { 0, 30 }

ZoomInputs == { U \div 10, 5 * U, 13 * (U \div 10) }

\* World points asked for as targets: two on the levels, one far outside.
TargetInputs == { <<Px(1500), Px(100)>>, <<Px(100), Px(535)>>, <<Px(5000), Px(3000)>> }

\* Shakes the game asks for: coin, power-up, next level.
ShakeInputs == { <<Px(1), 5>>, <<Px(2), 8>>, <<Px(8), 45>> }

ShakeDraws == { <<-U, U>>, <<U \div 2, 0>> }

\* step is history: the last call (op), the updates since the last call that
\* set something (n), the number of such calls (sets), the arguments of the last
\* set_zoom_target (zoom), set_target (target) and add_screen_shake (shake,
\* with the updates since it), the camera before the last call (from), and of
\* the last update its random draws (draw) and the offset it applied (offset).
InitCamera ==
    /\ ball = GameInit.ball
    /\ camera = CameraInit
    /\ world = GameInit.world
    /\ session = GameInit.session
    /\ step = [op |-> "init", n |-> 0, sets |-> 0, zoom |-> U,
               target |-> <<0, 0>>, shake |-> <<0, 0>>, since |-> 0,
               from |-> CameraInit, draw |-> <<0, 0>>, offset |-> <<0, 0>>]

CanSet == step.sets < MaxSets /\ step.n \in SetTimes

\* self.camera.set_zoom_target(zoom)
SetZoomTarget(zoom) ==
    /\ CanSet
    /\ camera' = set_zoom_target(camera, zoom)
    /\ step' = [step EXCEPT !.op = "set_zoom_target", !.n = 0, !.sets = step.sets + 1,
                            !.zoom = zoom, !.from = camera]
    /\ UNCHANGED <<ball, world, session>>

\* self.camera.set_target(x, y)
SetTarget(target) ==
    /\ CanSet
    /\ camera' = set_target(camera, target[1], target[2])
    /\ step' = [step EXCEPT !.op = "set_target", !.n = 0, !.sets = step.sets + 1,
                            !.target = target, !.from = camera]
    /\ UNCHANGED <<ball, world, session>>

\* self.camera.add_screen_shake(intensity, duration)
AddShake(request) ==
    /\ CanSet
    /\ camera' = add_screen_shake(camera, request[1], request[2])
    /\ step' = [step EXCEPT !.op = "add_screen_shake", !.n = 0, !.sets = step.sets + 1,
                            !.shake = request, !.since = 0, !.from = camera]
    /\ UNCHANGED <<ball, world, session>>

\* The offset an update of camera c applies for the draws rx, ry.
OffsetOf(c, rx, ry) ==
    IF c.shake_timer > 0
    THEN << Uniform(c.shake_intensity, rx), Uniform(c.shake_intensity, ry) >>
    ELSE <<0, 0>>

\* self.camera.update()
UpdateCamera(rx, ry) ==
    /\ step.n < MaxRun
    /\ camera' = CameraUpdate(camera, rx, ry)
    /\ step' = [step EXCEPT !.op = "update", !.n = step.n + 1,
                            !.since = step.since + 1, !.from = camera,
                            !.draw = <<rx, ry>>, !.offset = OffsetOf(camera, rx, ry)]
    /\ UNCHANGED <<ball, world, session>>

NextCamera ==
    \/ \E zoom \in ZoomInputs : SetZoomTarget(zoom)
    \/ \E target \in TargetInputs : SetTarget(target)
    \/ \E request \in ShakeInputs : AddShake(request)
    \/ \E d \in ShakeDraws : UpdateCamera(d[1], d[2])

SpecCamera == InitCamera /\ [][NextCamera]_vars

\* C8: whatever zoom targets are asked for, between any updates, the target
\* zoom and the smoothed zoom stay within [0.5, 2.0]; the zoom is never 0.
C8_ZoomInRange ==
    /\ U \div 2 <= camera.target_zoom /\ camera.target_zoom <= 2 * U
    /\ U \div 2 <= camera.zoom /\ camera.zoom <= 2 * U
    /\ camera.zoom # 0

\* C8 witness: after set_zoom_target(5.0) and the updates that follow, the
\* target is 2.0 and the zoom has risen toward it.
C8_Witness ==
    /\ step.op = "update"
    /\ step.zoom = 5 * U
    /\ step.n = MaxRun
    /\ camera.target_zoom = 2 * U
    /\ camera.zoom > U + U \div 2

\* new lies between old and target, and its distance to target is the old
\* distance less rate times the old distance.
Approaches(old, new, target, rate) ==
    /\ Abs(target - new) <= Abs(target - old)
    /\ (old <= target) => (old <= new /\ new <= target)
    /\ (old >= target) => (old >= new /\ new >= target)
    /\ Abs(target - new) = Abs(target - old) - Mul(rate, Abs(target - old))

\* C9: with the targets unchanged and no shake active, an update moves
\* position x, position y and zoom to a value between the old one and the
\* target, never past it, the distance shrinking by the rate 0.08 (position)
\* or 0.05 (zoom).
C9_MonotoneApproach ==
    [][ (/\ step'.op = "update"
         /\ camera.shake_timer = 0
         /\ camera'.target_position = camera.target_position
         /\ camera'.target_zoom = camera.target_zoom)
        => /\ Approaches(camera.position[1], camera'.position[1], camera.target_position[1], 80)
           /\ Approaches(camera.position[2], camera'.position[2], camera.target_position[2], 80)
           /\ Approaches(camera.zoom, camera'.zoom, camera.target_zoom, 50)
      ]_vars

\* C9 witness: updates have brought position and zoom part of the way to
\* targets that differ from the start, with no shake.
C9_Witness ==
    /\ step.op = "update"
    /\ step.n > 1
    /\ camera.shake_timer = 0
    /\ camera.target_position = <<Px(1000), Px(-100)>>
    /\ camera.position[1] > 0 /\ camera.position[1] < camera.target_position[1]
    /\ camera.position[2] < 0 /\ camera.position[2] > camera.target_position[2]
    /\ camera.target_zoom = U \div 2
    /\ camera.zoom < U /\ camera.zoom > camera.target_zoom

-----------------------------------------------------------------------------
(* Properties of the camera (specification SpecCamera), continued.          *)

\* C11: add_screen_shake(intensity, duration) leaves the camera with exactly
\* that intensity and duration, whatever shake was in progress (after several
\* requests in a row: those of the last one), and changes nothing else of the
\* camera.
C11_LastShakeWins ==
    step.op = "add_screen_shake" =>
        /\ camera.shake_intensity = step.shake[1]
        /\ camera.shake_timer = step.shake[2]
        /\ camera = [step.from EXCEPT !.shake_intensity = step.shake[1],
                                      !.shake_timer = step.shake[2]]

\* C11 witness: a shake was requested while another, requested just before
\* with other arguments, had not been updated yet.
C11_Witness ==
    /\ step.op = "add_screen_shake"
    /\ step.shake = <<Px(8), 45>>
    /\ step.from.shake_timer = 8
    /\ step.from.shake_intensity = Px(2)
    /\ camera.shake_timer = 45

\* v held to the interval [lo, hi].
Clamped(v, lo, hi) == IF v < lo THEN lo ELSE IF v > hi THEN hi ELSE v

\* C12: after set_target(x, y) the target is x - screen_width/2 held to
\* [min_x, max_x] = [0, 2000] and y - screen_height/2 held to [-100, 100]; the
\* target and the smoothed position are within [0, 2000] x [-100, 100] in
\* every state.
C12_TargetClamped ==
    /\ step.op = "set_target" =>
          /\ camera.target_position[1] = Clamped(step.target[1] - Px(500), 0, Px(2000))
          /\ camera.target_position[2] = Clamped(step.target[2] - Px(300), -Px(100), Px(100))
    /\ 0 <= camera.target_position[1] /\ camera.target_position[1] <= Px(2000)
    /\ -Px(100) <= camera.target_position[2] /\ camera.target_position[2] <= Px(100)
    /\ 0 <= camera.position[1] /\ camera.position[1] <= Px(2000)
    /\ -Px(100) <= camera.position[2] /\ camera.position[2] <= Px(100)

\* C12 witness: set_target(5000, 3000), far outside the level, left the target
\* at (2000, 100), and the updates since have brought the position close to it.
C12_Witness ==
    /\ step.op = "update"
    /\ step.n = MaxRun
    /\ step.target = <<Px(5000), Px(3000)>>
    /\ camera.target_position = <<Px(2000), Px(100)>>
    /\ camera.position[1] > Px(1900)
    /\ camera.position[2] > Px(90)

\* The view matrix of camera c for the shake offset <<ox, oy>>.
ViewWith(c, ox, oy) == create_view_matrix(c.position[1] + ox, c.position[2] + oy, c.zoom)

\* C14: after add_screen_shake(i, d), d > 0, and no other request, each of the
\* next d updates offsets the view position by a value in [-i, i] on each
\* axis and takes one off the remaining duration; after d updates the duration
\* and the intensity are 0 and every later update builds the view matrix with
\* no offset.  The remaining duration is never negative, and it is 0 only with
\* the intensity at 0 (or right after a request).
C14_ShakeRunsOut ==
    /\ camera.shake_timer >= 0
    /\ camera.shake_timer = 0 => (camera.shake_intensity = 0 \/ step.op = "add_screen_shake")
    /\ (step.shake[2] = 0 /\ step.op = "update") => camera.view_matrix = ViewWith(camera, 0, 0)
    /\ step.shake[2] > 0 =>
          /\ camera.shake_timer = Max2(step.shake[2] - step.since, 0)
          /\ camera.shake_intensity = IF step.since < step.shake[2] THEN step.shake[1] ELSE 0
          /\ (step.op = "update" /\ step.since <= step.shake[2]) =>
                 /\ Abs(Uniform(step.shake[1], step.draw[1])) <= step.shake[1]
                 /\ Abs(Uniform(step.shake[1], step.draw[2])) <= step.shake[1]
                 /\ camera.view_matrix = ViewWith(camera, Uniform(step.shake[1], step.draw[1]),
                                                  Uniform(step.shake[1], step.draw[2]))
          /\ (step.op = "update" /\ step.since > step.shake[2]) =>
                 camera.view_matrix = ViewWith(camera, 0, 0)

\* C14 witness: the update after the last of the 8 of a shake of intensity 2:
\* duration and intensity at 0, the view matrix without offset.
C14_Witness ==
    /\ step.op = "update"
    /\ step.shake = <<Px(2), 8>>
    /\ step.since = 9
    /\ step.draw = <<-U, U>>
    /\ camera.shake_timer = 0
    /\ camera.shake_intensity = 0
    /\ camera.position # <<0, 0>>
    /\ camera.view_matrix = ViewWith(camera, 0, 0)

-----------------------------------------------------------------------------
(* Properties of the game loop (specification Spec), continued.             *)

FrameOrder ==
    <<"input", "physics", "collision", "platforms", "collectibles", "camera", "fall", "render">>

\* No reset_level ran in the frame before its fall check.
NoResetBeforeFall(log) == log.resets = 0 \/ log.fell

\* C13: a frame of an uncompleted level runs input, physics, collision pass,
\* platform updates, collectible checks, camera, fall check and drawing in this
\* order: the physics step starts from the velocity the held keys set; the
\* collision pass takes the avatar the physics step left and the platforms as
\* the frame before left them; check_collisions sees the platforms moved; the
\* camera aims at the avatar check_collisions left; the fall test reads that
\* same avatar; the drawing uses the camera and the avatar the frame ends with.
C13_FrameOrder ==
    [][ (step'.op = "frame" /\ ~session.level_complete) =>
          /\ step'.log.order = FrameOrder
          /\ step'.keys.right => step'.log.physics.before.velocity[1] = Px(move_speed)
          /\ (step'.keys.left /\ ~step'.keys.right) =>
                 step'.log.physics.before.velocity[1] = -Px(move_speed)
          /\ step'.log.at_fall.y = step'.log.collect.ball.pos[2]
          /\ step'.log.drawn.ball = world_to_screen(camera', ball'.pos)
          /\ NoResetBeforeFall(step'.log) =>
                 /\ step'.log.collect.from.ball =
                        handle_platform_collision(step'.log.physics.after, all_platforms(State))
                 /\ step'.log.collect.world.moving_platforms =
                        UpdatePlatforms(State).world.moving_platforms
          /\ step'.log.resets = 0 =>
                 /\ camera'.target_position =
                        set_target(camera, step'.log.collect.ball.pos[1],
                                   step'.log.collect.ball.pos[2]).target_position
                 /\ camera'.target_zoom = ZoomFor(step'.log.collect.ball.scale_factor)
      ]_vars

\* C13 witness: a frame whose collision pass put the avatar on a moving
\* platform that had moved in the frame before, with no reset in the frame.
C13_Witness ==
    /\ step.op = "frame"
    /\ step.log.order = FrameOrder
    /\ step.log.resets = 0
    /\ \E k \in 1..Len(step.log.hits) :
          /\ step.log.hits[k].platform.moving
          /\ step.log.hits[k].platform.velocity # <<0, 0>>
          /\ step.log.hits[k].after.on_ground

\* C15: Ball.update adds gravity (0.5) to the vertical velocity exactly when
\* on_ground was false on entry, multiplies the horizontal velocity by the
\* friction (0.8) on the ground or off it, moves the position by the resulting
\* velocity, and leaves on_ground false.
C15_UpdatePhysics ==
    (step.op = "frame" /\ step.log.physics.taken) =>
        /\ step.log.physics.after.velocity[2] =
               IF step.log.physics.before.on_ground
               THEN step.log.physics.before.velocity[2]
               ELSE step.log.physics.before.velocity[2] + U \div 2
        /\ step.log.physics.after.velocity[1] =
               Mul(8 * (U \div 10), step.log.physics.before.velocity[1])
        /\ step.log.physics.after.pos =
               << step.log.physics.before.pos[1] + step.log.physics.after.velocity[1],
                  step.log.physics.before.pos[2] + step.log.physics.after.velocity[2] >>
        /\ ~step.log.physics.after.on_ground

\* C15 witness: an update that started on the ground with the jump and the
\* move to the right just set: no gravity added, the horizontal velocity
\* damped.
C15_Witness ==
    /\ step.op = "frame"
    /\ step.log.physics.taken
    /\ step.log.physics.before.on_ground
    /\ step.log.physics.before.velocity = <<Px(5), -Px(12)>>
    /\ step.log.physics.after.velocity = <<Px(4), -Px(12)>>

\* C17: every platform the collision pass finds overlapping the avatar's box
\* is left with the avatar moved out of it along one axis: right after the
\* platform has been processed the avatar's box does not overlap it, and the
\* avatar's coordinate on the other axis is as before.
C17_MovedOut ==
    \A k \in 1..Len(step.log.hits) :
        /\ ~colliderect(step.log.hits[k].after_rect, step.log.hits[k].platform.rect)
        /\ \/ step.log.hits[k].after.pos[1] = step.log.hits[k].before.pos[1]
           \/ step.log.hits[k].after.pos[2] = step.log.hits[k].before.pos[2]

\* C23: when the avatar falls below the playfield and has a life left after
\* the deduction, the respawn changes the avatar's position (to the start
\* position), velocity (to zero) and lives (one less) only: the rest of the
\* avatar (scale factor, scale timer, radius), the score and the level, the
\* coins, power-ups and flag, the moving platforms and the camera are as the
\* fall test found them.
C23_RespawnKeepsRest ==
    (step.op = "frame" /\ step.log.fell /\ step.log.at_fall.lives - 1 >= 1) =>
        /\ ball = [step.log.at_fall.ball EXCEPT
                      !.pos = step.log.at_fall.ball.original_pos,
                      !.velocity = <<0, 0>>,
                      !.lives = step.log.at_fall.ball.lives - 1]
        /\ world = step.log.at_fall.world
        /\ session = step.log.at_fall.session
        /\ camera = step.log.at_fall.camera

\* C23 witness: the grown avatar falls with both lives, after a coin was
\* collected and with the camera away from its start: one life left, the
\* score and the size kept.
C23_Witness ==
    /\ step.op = "frame"
    /\ step.log.fell
    /\ step.log.at_fall.lives = start_lives
    /\ ball.lives = start_lives - 1
    /\ ball.pos = StartPos
    /\ ball.velocity = <<0, 0>>
    /\ session.score > 0
    /\ \E i \in DOMAIN world.coins : world.coins[i]
    /\ world.moving_platforms[1].time > 0
    /\ camera # CameraInit
    /\ ball.scale_factor = ScaleGrow
    /\ ball.scale_timer > 0
    /\ ball.radius = 2 * Px(base_radius)

-----------------------------------------------------------------------------
(* Properties of the frames near the flag (specification SpecScene),        *)
(* continued.                                                               *)

\* C19: the score is 10 x the number of collected coins of the current coin
\* collection + 100 if the current flag is collected; after a reset, the
\* advance to the next level included, it is 0: the 100 points for the flag of
\* a level below the last are not kept.
C19_ScoreFromCollected ==
    /\ session.score = 10 * Cardinality({ i \in DOMAIN world.coins : world.coins[i] })
                       + (IF world.flag THEN 100 ELSE 0)
    /\ (step.op = "frame" /\ step.log.flagged /\ step.log.collect.from.level < max_level) =>
           /\ step.log.collect.session.score = 0
           /\ session.score = 0

\* C19 witness: the flag of level 1 was reached with 20 points; the game is on
\* level 2 with none.
C19_Witness ==
    /\ step.op = "frame"
    /\ step.log.flagged
    /\ step.log.collect.from.level = 1
    /\ step.log.collect.from.score = 20
    /\ session.current_level = 2
    /\ session.score = 0

\* C21: while level_complete is true, a frame with no KEYDOWN event runs no
\* simulation step: the avatar's position, lives and scale state, the moving
\* platforms, the collected states, the score, the level and the camera are
\* as before the frame; only the avatar's velocity may differ.
C21_CompleteFreezes ==
    [][(session.level_complete /\ step'.events = <<>>) =>
          /\ ball' = [ball EXCEPT !.velocity = ball'.velocity]
          /\ world' = world
          /\ session' = session
          /\ camera' = camera
          /\ step'.log.order = <<"input", "render">>]_vars

\* C21 witness: the last level is complete and a frame with right and jump
\* held and no KEYDOWN event has run no simulation stage; the avatar has the
\* horizontal velocity of the key and is still at the x where the scene began.
C21_Witness ==
    /\ step.op = "frame"
    /\ step.frames >= 2
    /\ step.events = <<>>
    /\ step.keys = KeyRJ
    /\ session.level_complete
    /\ session.current_level = max_level
    /\ world.flag
    /\ step.log.order = <<"input", "render">>
    /\ ball.pos[1] = Px(1870)
    /\ ball.velocity[1] = Px(move_speed)

-----------------------------------------------------------------------------
(* Frames over a moving platform (specification SpecCarrier): level 1 some  *)
(* time into play, the avatar just above one of its moving platforms        *)
(* (horizontal, vertical, circular, horizontal), falling or drifting.       *)

\* The number of frames run from the start.
MaxCarrierFrames == 3

\* The largest distance of the avatar's lower edge from the platform's top, in
\* pixels.
MaxCarrierGap == 3

\* The number of MovingPlatform.update calls behind the start: platforms on
\* their way out, near their turning point and on their way back.
CarrierTicks == { 20, 60, 100, 140 }

\* The platform of table entry t after `ticks` calls of update(), ticks > 0:
\* the last call made from where the call before it had put the platform (each
\* call moves the platform to the very position it computes).
MovingAt(t, ticks) ==
    MovingUpdate(t, [MovingInit(t) EXCEPT
                        !.time = ticks - 1,
                        !.x = IF ticks = 1 THEN Px(t[1]) ELSE MovingTarget(t, ticks - 1)[1],
                        !.y = IF ticks = 1 THEN Px(t[2]) ELSE MovingTarget(t, ticks - 1)[2]])

\* The entities of `level` untouched, its platforms after `ticks` updates.
WorldAt(level, ticks) ==
    [WorldInit(level) EXCEPT !.moving_platforms =
        [i \in 1..Len(MovingTable(level)) |-> MovingAt(MovingTable(level)[i], ticks)]]

\* The avatar's velocity at the start: <<horizontal, vertical>>.
CarrierVelocities == { <<0, 0>>, <<0, Px(3)>>, <<0, Px(6)>>, <<Px(4), 0>>, <<Px(4), Px(3)>> }

CarrierKeys == { NoKeys, KeyR }

\* The avatar of the given scale above the rectangle rect, its centre over the
\* middle of it.
Above(rect, scale, gap, velocity) ==
    [BallInit(StartPos[1], StartPos[2]) EXCEPT
        !.pos = << Px(rect.x + rect.w \div 2), Px(rect.y - gap) - Mul(scale, Px(base_radius)) >>,
        !.velocity = velocity,
        !.radius = Mul(scale, Px(base_radius)),
        !.scale_factor = scale,
        !.scale_timer = IF scale = U THEN 0 ELSE powerup_duration \div 2]

InitCarrier ==
    /\ session = GameInit.session
    /\ camera = CameraInit
    /\ \E ticks \in CarrierTicks : world = WorldAt(1, ticks)
    /\ \E k \in 1..Len(MovingTable(1)), scale \in {U \div 2, U, 2 * U},
          gap \in 0..MaxCarrierGap, velocity \in CarrierVelocities :
          ball = Above(world.moving_platforms[k].rect, scale, gap, velocity)
    /\ step = [op |-> "init", frames |-> 0, log |-> EmptyLog]

\* One iteration of the loop of Game.run.
CarrierFrame(keys, rx, ry) ==
    /\ step.frames < MaxCarrierFrames
    /\ \E g \in { RunFrame(State, <<>>, keys, rx, ry) } :
           /\ ball' = g.ball
           /\ camera' = g.camera
           /\ world' = g.world
           /\ session' = g.session
           /\ step' = [op |-> "frame", frames |-> step.frames + 1, log |-> g.log]

NextCarrier == \E keys \in CarrierKeys, d \in Draws : CarrierFrame(keys, d[1], d[2])

SpecCarrier == InitCarrier /\ [][NextCarrier]_vars

\* The four overlaps of the avatar b with the rectangle r, as real numbers.
OverlapLeft(b, r) == (b.pos[1] + b.radius) - Px(r.x)

OverlapRight(b, r) == Px(r.x + r.w) - (b.pos[1] - b.radius)

OverlapTop(b, r) == (b.pos[2] + b.radius) - Px(r.y)

OverlapBottom(b, r) == Px(r.y + r.h) - (b.pos[2] - b.radius)

MinOverlap(b, r) ==
    Min2(Min2(OverlapLeft(b, r), OverlapRight(b, r)), Min2(OverlapTop(b, r), OverlapBottom(b, r)))

\* The hit h is a landing: the minimum overlap is the top one and the avatar
\* is not moving up.
Landing(h) ==
    /\ MinOverlap(h.before, h.platform.rect) = OverlapTop(h.before, h.platform.rect)
    /\ h.before.velocity[2] >= 0

\* C16: an avatar that lands on top of a moving platform is put on the
\* platform's top with on_ground set; its horizontal velocity becomes the one
\* it had plus 0.8 x the platform's last horizontal displacement, its vertical
\* velocity 0.8 x the platform's last vertical displacement, or, on a vertical
\* platform, exactly that displacement.
C16_CarriedVelocity ==
    \A k \in 1..Len(step.log.hits) :
        (step.log.hits[k].platform.moving /\ Landing(step.log.hits[k])) =>
            /\ step.log.hits[k].after.pos[2] + step.log.hits[k].after.radius
                   = Px(step.log.hits[k].platform.rect.y)
            /\ step.log.hits[k].after.on_ground
            /\ step.log.hits[k].after.velocity[1] =
                   step.log.hits[k].before.velocity[1]
                   + Mul(8 * (U \div 10), step.log.hits[k].platform.velocity[1])
            /\ step.log.hits[k].after.velocity[2] =
                   IF step.log.hits[k].platform.move_type = "vertical"
                   THEN step.log.hits[k].platform.velocity[2]
                   ELSE Mul(8 * (U \div 10), step.log.hits[k].platform.velocity[2])

\* A landing on a moving platform of the given kind that was moving on both
\* of its axes of motion, by an avatar with horizontal velocity.
LandedOn(move_type) ==
    \E k \in 1..Len(step.log.hits) :
        /\ step.log.hits[k].platform.moving
        /\ step.log.hits[k].platform.move_type = move_type
        /\ Landing(step.log.hits[k])
        /\ step.log.hits[k].before.velocity[1] # 0
        /\ move_type # "vertical" => step.log.hits[k].platform.velocity[1] # 0
        /\ move_type # "horizontal" => Abs(step.log.hits[k].platform.velocity[2]) >= 10

\* C16 witness: a landing on a vertical platform in motion.
C16_Witness == step.op = "frame" /\ LandedOn("vertical")

-----------------------------------------------------------------------------
(* The camera's two mappings (specification SpecView): a camera somewhere   *)
(* over the level at some zoom, on its way to a target, a shake requested   *)
(* or not, and update() called on it.                                       *)

\* The number of update() calls.
MaxViewRun == 3

ViewPositions == { <<0, 0>>, <<Px(1000), -Px(100)>>, <<1554123, 77701>> }

ViewZooms == { U \div 2, 677, 8 * (U \div 10), U, 13 * (U \div 10), 1975, 2 * U }

ViewZoomTargets == { U \div 2, U, 2 * U }

ViewShakes == { <<0, 0>>, <<Px(2), 8>>, <<Px(8), 45>> }

\* The camera as an update without shake left it at `position` and `zoom`,
\* then given its targets and the shake request.
InitView ==
    /\ ball = GameInit.ball
    /\ world = GameInit.world
    /\ session = GameInit.session
    /\ \E position \in ViewPositions, zoom \in ViewZooms, target \in TargetInputs,
          target_zoom \in ViewZoomTargets, shake \in ViewShakes :
          camera = add_screen_shake(
                       set_zoom_target(
                           set_target([CameraInit EXCEPT
                                          !.position = position,
                                          !.zoom = zoom,
                                          !.view_matrix =
                                              create_view_matrix(position[1], position[2], zoom)],
                                      target[1], target[2]),
                           target_zoom),
                       shake[1], shake[2])
    /\ step = [op |-> "init", n |-> 0, draw |-> <<0, 0>>, offset |-> <<0, 0>>]

\* self.camera.update()
ViewUpdate(rx, ry) ==
    /\ step.n < MaxViewRun
    /\ camera' = CameraUpdate(camera, rx, ry)
    /\ step' = [op |-> "update", n |-> step.n + 1, draw |-> <<rx, ry>>,
                offset |-> OffsetOf(camera, rx, ry)]
    /\ UNCHANGED <<ball, world, session>>

NextView == \E d \in ShakeDraws : ViewUpdate(d[1], d[2])

SpecView == InitView /\ [][NextView]_vars

\* Points: as screen points these, as world points the camera's position plus
\* one of these.
ViewOffsets == { <<0, 0>>, <<Px(100), Px(50)>>, <<Px(500), Px(300)>>, <<-Px(20), 7300>> }

WorldPoint(d) == <<camera.position[1] + d[1], camera.position[2] + d[2]>>

\* The camera position plus the shake offset of the last update.
Shaken == <<camera.position[1] + step.offset[1], camera.position[2] + step.offset[2]>>

\* a and b are equal up to the resolution of the arithmetic for a product or
\* quotient of the size of v by a zoom (an error of 1/U in 1/zoom, of one unit
\* in each product).
Near(a, b, v) == Abs(a - b) <= Abs(v) \div (U \div 2) + 4

RoundTrip(p) == screen_to_world(camera, world_to_screen(camera, p))

\* C18: world_to_screen(p) is zoom x (p - (position + shake offset of the last
\* update)), screen_to_world(q) is q / zoom + position, so the round trip
\* screen_to_world(world_to_screen(p)) gives p - s for the shake offset s of
\* the last update: p itself when there was none.  The equalities are exact
\* at zoom 1.0 and hold up to the arithmetic's resolution at other zooms.
C18_RoundTrip ==
    \A d \in ViewOffsets : \A a \in 1..2 :
        /\ Near(world_to_screen(camera, WorldPoint(d))[a],
                Mul(camera.zoom, WorldPoint(d)[a] - Shaken[a]), 0)
        /\ Near(Mul(camera.zoom, screen_to_world(camera, d)[a] - camera.position[a]), d[a], d[a])
        /\ Near(RoundTrip(WorldPoint(d))[a], WorldPoint(d)[a] - step.offset[a],
                d[a] - step.offset[a])
        /\ camera.zoom = U =>
              /\ world_to_screen(camera, WorldPoint(d))[a] = WorldPoint(d)[a] - Shaken[a]
              /\ screen_to_world(camera, d)[a] = d[a] + camera.position[a]
              /\ RoundTrip(WorldPoint(d))[a] = WorldPoint(d)[a] - step.offset[a]
        /\ step.offset = <<0, 0>> => Near(RoundTrip(WorldPoint(d))[a], WorldPoint(d)[a], d[a])

\* C18 witness: at zoom 1.0, after an update that applied the shake offset
\* (-2, 2), the round trip of the camera's own position gives it moved by
\* (2, -2).
C18_Witness ==
    /\ step.op = "update"
    /\ camera.zoom = U
    /\ step.offset = <<-Px(2), Px(2)>>
    /\ camera.position[1] > 0
    /\ RoundTrip(camera.position) = <<camera.position[1] + Px(2), camera.position[2] - Px(2)>>

-----------------------------------------------------------------------------
(* The end of the last level (specification SpecFinish): level 3 as the     *)
(* advance from level 2 leaves it, played with the keyboard: over the third *)
(* grow power-up, past the flag above it, down on the last platform right   *)
(* of the flag and back left into the flag; then, the game complete, any    *)
(* keys.                                                                    *)

KeyJ == Held(FALSE, FALSE, TRUE)

\* The play, as <<keys, number of frames>> in order.
FinishPlay ==
    << <<KeyR, 6>>, <<KeyL, 6>>, <<KeyRJ, 24>>, <<KeyR, 12>>, <<KeyRJ, 48>>, <<KeyR, 12>>,
       <<KeyRJ, 36>>, <<KeyR, 12>>, <<KeyRJ, 66>>, <<KeyR, 12>>, <<KeyRJ, 24>>,
       <<KeyLJ, 24>>, <<NoKeys, 24>>, <<KeyR, 30>>, <<KeyRJ, 24>>, <<KeyR, 24>>,
       <<NoKeys, 12>>, <<KeyL, 12>>, <<KeyRJ, 12>>, <<KeyR, 72>>, <<NoKeys, 24>>,
       <<KeyRJ, 12>>, <<KeyR, 12>>, <<KeyJ, 12>>, <<KeyR, 18>>, <<KeyJ, 6>>, <<KeyRJ, 12>>,
       <<KeyR, 12>>, <<KeyRJ, 24>>, <<KeyLJ, 6>> >>

\* The number of frames of a play from entry i on.
RECURSIVE PlayFrames(_, _)
PlayFrames(play, i) == IF i > Len(play) THEN 0 ELSE play[i][2] + PlayFrames(play, i + 1)

FinishPlayFrames == PlayFrames(FinishPlay, 1)

\* The number of frames after the play.
MaxFinishFrames == 3

\* The keys of the player.
FinishKeys == { NoKeys, KeyL, KeyR, KeyJ, KeyLJ, KeyRJ }

\* Level 3 as check_collisions leaves it when the flag of level 2 is reached.
FinishStart ==
    NextLevel([GameInit EXCEPT !.session.current_level = max_level - 1,
                               !.world = WorldInit(max_level - 1)])

\* The collision pass of the frame resolved a landing (update had cleared
\* on_ground before it).
Landed(log) == \E k \in 1..Len(log.hits) : log.hits[k].after.on_ground

\* jump() was called with on_ground true.
Jumped(log) == log.jump.held /\ log.jump.before.on_ground

\* step.log is the log of the last frame, step.landed whether the frame
\* before it resolved a landing, step.landing whether a landing was resolved
\* since the last jump that took effect.
InitFinish ==
    /\ ball = FinishStart.ball
    /\ camera = FinishStart.camera
    /\ world = FinishStart.world
    /\ session = FinishStart.session
    /\ step = [op |-> "init", frames |-> 0, keys |-> NoKeys, log |-> EmptyLog,
               landed |-> FALSE, landing |-> FALSE]

\* One iteration of the loop of Game.run.
FinishFrame(keys, rx, ry) ==
    /\ step.frames < FinishPlayFrames + MaxFinishFrames
    /\ \E held \in { IF step.frames < FinishPlayFrames
                      THEN KeysAt(FinishPlay, step.frames + 1, 1) ELSE keys },
          g \in { RunFrame(State, EventsOf(step.keys, keys, <<>>), keys, rx, ry) } :
           /\ held = keys
           /\ ball' = g.ball
           /\ camera' = g.camera
           /\ world' = g.world
           /\ session' = g.session
           /\ step' = [op |-> "frame", frames |-> step.frames + 1, keys |-> keys, log |-> g.log,
                       landed |-> Landed(step.log),
                       landing |-> Landed(g.log) \/ (step.landing /\ ~Jumped(g.log))]

NextFinish == \E keys \in FinishKeys, d \in Draws : FinishFrame(keys, d[1], d[2])

SpecFinish == InitFinish /\ [][NextFinish]_vars

\* The frame of step.log ran no simulation step.
Frozen(log) == log.order = <<"input", "render">>

\* What jump() did in the frame of `log`: on the ground the vertical velocity
\* became jump_force, off the ground nothing changed.
JumpEffect(log) ==
    log.jump.held =>
        log.jump.after = IF log.jump.before.on_ground
                         THEN [log.jump.before EXCEPT !.velocity[2] = Px(jump_force)]
                         ELSE log.jump.before

\* C22 as stated: jump() changes the vertical velocity, to jump_force, only
\* when on_ground is true; a jump takes effect only in a frame that directly
\* follows a frame whose collision pass resolved a landing, and two jumps
\* never take effect without a landing resolved between them.
C22_JumpFollowsLanding ==
    [][/\ JumpEffect(step'.log)
       /\ Jumped(step'.log) => Landed(step.log)
       /\ Jumped(step'.log) => step.landing]_vars

\* C22, amended: jump() changes the vertical velocity, to jump_force, only
\* when on_ground is true; a jump takes effect only in a frame that directly
\* follows a frame whose collision pass resolved a landing or a frame that
\* ran no simulation step (the level complete, on_ground left as it was); two
\* jumps take effect without a landing resolved between them only when the
\* frame before the second ran no simulation step.
C22_JumpNeedsGround ==
    [][/\ JumpEffect(step'.log)
       /\ Jumped(step'.log) => (Landed(step.log) \/ Frozen(step.log))
       /\ Jumped(step'.log) => (step.landing \/ Frozen(step.log))]_vars

\* C22 witness: a jump has taken effect in a frame of the running game, the
\* frame before it having resolved a landing: the avatar is rising.
C22_Witness ==
    /\ step.op = "frame"
    /\ Jumped(step.log)
    /\ step.landed
    /\ ~Frozen(step.log)
    /\ step.log.jump.before.velocity[2] = 0
    /\ step.log.jump.after.velocity[2] = Px(jump_force)
    /\ ball.velocity[2] < 0

====
